---------------------------- MODULE Spec2Model ----------------------------
(***************************************************************************)
(* Model of brpyople.cadastro_pessoas: the Registro class (CPF / CNPJ      *)
(* identifiers), its constructor, the check-digit generator                *)
(* gerar_digitos_verificadores, the factory                                *)
(* de_estabelecimento_com_raiz_cnpj and extrair_raiz_cnpj.                 *)
(*                                                                         *)
(* A text is a sequence of one-character strings.  An exception raised by  *)
(* an operation is recorded in `erro`; a constructor that raises leaves no *)
(* object (SemRegistro).                                                   *)
(***************************************************************************)
EXTENDS Integers, Sequences, FiniteSets

(***************************************************************************)
(* Characters and the str / re primitives the module uses.                 *)
(***************************************************************************)
DigitChars == <<"0", "1", "2", "3", "4", "5", "6", "7", "8", "9">>

DigitSet == {DigitChars[i] : i \in 1..10}

\* \d of the regular expressions, and str.isdigit of one character
IsDigitChar(c) == c \in DigitSet

\* int(char) for a decimal digit character
IntOfChar(c) == (CHOOSE i \in 1..10 : DigitChars[i] = c) - 1

\* str(d) for 0 <= d <= 9
StrOfDigit(d) == DigitChars[d + 1]

RECURSIVE StrNat(_)
\* str(n) for a natural number n: its decimal digits, most significant first
StrNat(n) == IF n < 10 THEN <<StrOfDigit(n)>>
             ELSE StrNat(n \div 10) \o <<StrOfDigit(n % 10)>>

\* ZFill with the padding forgotten
ZFill_SemPreencher(s, width) == s

RECURSIVE Zeros(_)
Zeros(n) == IF n <= 0 THEN <<>> ELSE <<"0">> \o Zeros(n - 1)

\* s.zfill(width) for a text without sign
ZFill(s, width) == Zeros(width - Len(s)) \o s

\* re.sub(r'\D', '', s)
SubNaoDigitos(s) == SelectSeq(s, IsDigitChar)

IsSeparador(c) == c \in {".", "/", "-"}

IsNaoSeparador(c) == ~IsSeparador(c)

\* re.sub(r'[./-]', '', s)
SubSeparadores(s) == SelectSeq(s, IsNaoSeparador)

\* s.isdigit(): non-empty and every character a digit
IsDigitStr(s) == Len(s) > 0 /\ \A i \in 1..Len(s) : IsDigitChar(s[i])

\* s[a:b] of Python for 0 <= a, with b cut to len(s)
Slice(s, a, b) == SubSeq(s, a + 1, IF b > Len(s) THEN Len(s) ELSE b)

\* Pattern tokens: "d" stands for \d, any other token for that literal character.
TokenMatches(tok, c) == IF tok = "d" THEN IsDigitChar(c) ELSE tok = c

\* FullMatch with pattern.match for pattern.fullmatch: what follows the shape
\* in the text is not looked at
FullMatch_Match(pattern, s) ==
    /\ Len(s) >= Len(pattern)
    /\ \A i \in 1..Len(pattern) : TokenMatches(pattern[i], s[i])

\* pattern.fullmatch(s) for a pattern that is a fixed sequence of tokens
FullMatch(pattern, s) ==
    /\ Len(s) = Len(pattern)
    /\ \A i \in 1..Len(pattern) : TokenMatches(pattern[i], s[i])

REGEX_CPF_COM_SEPARADORES ==
    <<"d", "d", "d", ".", "d", "d", "d", ".", "d", "d", "d", "-", "d", "d">>

REGEX_CPF_SEM_SEPARADORES ==
    <<"d", "d", "d", "d", "d", "d", "d", "d", "d", "d", "d">>

REGEX_CNPJ_COM_SEPARADORES ==
    <<"d", "d", ".", "d", "d", "d", ".", "d", "d", "d", "/",
      "d", "d", "d", "d", "-", "d", "d">>

REGEX_CNPJ_SEM_SEPARADORES ==
    <<"d", "d", "d", "d", "d", "d", "d", "d", "d", "d", "d", "d", "d", "d">>

\* EspeciesCadastroPessoas
CNPJ == "CNPJ"

CPF == "CPF"

EspeciesCadastroPessoas == {CNPJ, CPF}

(***************************************************************************)
(* gerar_digitos_verificadores                                             *)
(***************************************************************************)
\* the dict of expected digit counts
QuantidadeMaximaDigitos(cadastro_pessoas) ==
    IF cadastro_pessoas = CNPJ THEN 14 ELSE 11

RECURSIVE SomaCPF_SemDeslocamento(_, _, _)
\* SomaCPF with identificador[dv:] written identificador: the second pass
\* starts at the first digit again
SomaCPF_SemDeslocamento(s, dv, i) ==
    IF i >= Len(s) \/ 10 - i <= 1 THEN 0
    ELSE IntOfChar(s[i + 1]) * (10 - i) + SomaCPF_SemDeslocamento(s, dv, i + 1)

RECURSIVE SomaCPF(_, _, _)
\* the inner loop of the CPF branch: zip(identificador[dv:], range(10, 1, -1)),
\* i is the 0-based position in the zip, which stops at the shorter of the two
SomaCPF(s, dv, i) ==
    IF dv + i >= Len(s) \/ 10 - i <= 1 THEN 0
    ELSE IntOfChar(s[dv + i + 1]) * (10 - i) + SomaCPF(s, dv, i + 1)

DigitoCPF(s, dv) ==
    LET resto == SomaCPF(s, dv, 0) % 11
    IN  StrOfDigit(IF resto > 1 THEN 11 - resto ELSE 0)

RECURSIVE SomaCNPJ_VoltaEmUm(_, _, _)
\* SomaCNPJ with the multiplier going down to 1 before it returns to 9
SomaCNPJ_VoltaEmUm(s, i, mult) ==
    IF i < 1 THEN 0
    ELSE IntOfChar(s[i]) * mult
         + SomaCNPJ_VoltaEmUm(s, i - 1, IF mult > 1 THEN mult - 1 ELSE 9)

RECURSIVE SomaCNPJ(_, _, _)
\* the inner loop of the CNPJ branch: the text reversed, i the 1-based position
\* of the next character to read, mult the multiplier it gets
SomaCNPJ(s, i, mult) ==
    IF i < 1 THEN 0
    ELSE IntOfChar(s[i]) * mult
         + SomaCNPJ(s, i - 1, IF mult > 2 THEN mult - 1 ELSE 9)

DigitoCNPJ(s) ==
    LET resto == SomaCNPJ(s, Len(s), 9) % 11
    IN  StrOfDigit(IF resto # 10 THEN resto ELSE 0)

\* the two passes, each appending its digit to the working text
DoisDigitos(identificador_valido, cadastro_pessoas) ==
    IF cadastro_pessoas = CPF
    THEN LET p0 == identificador_valido \o <<DigitoCPF(identificador_valido, 0)>>
             p1 == p0 \o <<DigitoCPF(p0, 1)>>
         IN  Slice(p1, Len(p1) - 2, Len(p1))
    ELSE LET p0 == identificador_valido \o <<DigitoCNPJ(identificador_valido)>>
             p1 == p0 \o <<DigitoCNPJ(p0)>>
         IN  Slice(p1, Len(p1) - 2, Len(p1))

\* TextoRejeitado accepting only a text without its check digits
TextoRejeitado_SoPrefixo(texto_sem_separadores, quantidade_maxima_digitos) ==
    \/ Len(texto_sem_separadores) # quantidade_maxima_digitos - 2
    \/ ~IsDigitStr(texto_sem_separadores)

\* the validation of the text: TRUE when the function raises ValueError
TextoRejeitado(texto_sem_separadores, quantidade_maxima_digitos) ==
    \/ Len(texto_sem_separadores)
         \notin {quantidade_maxima_digitos, quantidade_maxima_digitos - 2}
    \/ ~IsDigitStr(texto_sem_separadores)

\* the whole function: [erro, valor]
gerar_digitos_verificadores(texto, cadastro_pessoas) ==
    LET texto_sem_separadores == SubSeparadores(texto)
        quantidade_maxima_digitos == QuantidadeMaximaDigitos(cadastro_pessoas)
    IN  IF cadastro_pessoas \notin EspeciesCadastroPessoas
        THEN [erro |-> "ValueError", valor |-> <<>>]
        ELSE IF TextoRejeitado(texto_sem_separadores, quantidade_maxima_digitos)
        THEN [erro |-> "ValueError", valor |-> <<>>]
        ELSE LET identificador_valido ==
                     IF Len(texto_sem_separadores) = quantidade_maxima_digitos
                     THEN Slice(texto_sem_separadores, 0,
                                Len(texto_sem_separadores) - 2)
                     ELSE texto_sem_separadores
             IN  [erro |-> "none",
                  valor |-> DoisDigitos(identificador_valido, cadastro_pessoas)]

(***************************************************************************)
(* Registro                                                                *)
(***************************************************************************)
\* no object: the constructor raised
SemRegistro ==
    [cadastro_pessoas |-> "none",
     digitos_identificador |-> <<>>,
     identificador_formatado |-> <<>>,
     identificador_valido |-> FALSE]

\* FormatarCPF with the last group starting one digit early
FormatarCPF_UltimoGrupo(d) ==
    Slice(d, 0, 3) \o <<".">> \o Slice(d, 3, 6) \o <<".">> \o Slice(d, 6, 9)
    \o <<"-">> \o Slice(d, 8, 11)

\* '.'.join((d[:3], d[3:6], d[6:9])) + '-' + d[9:11]
FormatarCPF(d) ==
    Slice(d, 0, 3) \o <<".">> \o Slice(d, 3, 6) \o <<".">> \o Slice(d, 6, 9)
    \o <<"-">> \o Slice(d, 9, 11)

\* FormatarCNPJ with '-' for the '/' before the establishment
FormatarCNPJ_SemBarra(d) ==
    Slice(d, 0, 2) \o <<".">> \o Slice(d, 2, 5) \o <<".">> \o Slice(d, 5, 8)
    \o <<"-">> \o Slice(d, 8, 12) \o <<"-">> \o Slice(d, 12, Len(d))

\* '.'.join((d[:2], d[2:5], d[5:8])) + f'/{d[8:12]}-{d[12:]}'
FormatarCNPJ(d) ==
    Slice(d, 0, 2) \o <<".">> \o Slice(d, 2, 5) \o <<".">> \o Slice(d, 5, 8)
    \o <<"/">> \o Slice(d, 8, 12) \o <<"-">> \o Slice(d, 12, Len(d))

\* CasaCPF by the count of digits, whatever stands between them
CasaCPF_PorContagem(identificador) ==
    Len(SubNaoDigitos(identificador)) = 11

\* the first branch of the constructor
CasaCPF(identificador) ==
    \/ FullMatch(REGEX_CPF_COM_SEPARADORES, identificador)
    \/ FullMatch(REGEX_CPF_SEM_SEPARADORES, identificador)

\* the second branch of the constructor
CasaCNPJ(identificador) ==
    \/ FullMatch(REGEX_CNPJ_COM_SEPARADORES, identificador)
    \/ FullMatch(REGEX_CNPJ_SEM_SEPARADORES, identificador)

\* DigitosConferem comparing with the first two digits, [:2] for [-2:]
DigitosConferem_Primeiros(digitos_verificadores, digitos_identificador) ==
    digitos_verificadores = Slice(digitos_identificador, 0, 2)

\* the comparison that decides identificador_valido: the generated digits
\* against digitos_identificador[-2:]
DigitosConferem(digitos_verificadores, digitos_identificador) ==
    digitos_verificadores
        = Slice(digitos_identificador, Len(digitos_identificador) - 2,
                Len(digitos_identificador))

\* Registro.__init__ for a str argument: [erro, registro, chamadas_dv], where
\* chamadas_dv counts the calls of gerar_digitos_verificadores it made
RegistroInit(identificador) ==
    LET digitos_identificador == SubNaoDigitos(identificador)
        cadastro_pessoas == IF CasaCPF(identificador) THEN CPF ELSE CNPJ
        identificador_formatado ==
            IF CasaCPF(identificador) THEN FormatarCPF(digitos_identificador)
            ELSE FormatarCNPJ(digitos_identificador)
        dv == gerar_digitos_verificadores(digitos_identificador, cadastro_pessoas)
    IN  IF ~CasaCPF(identificador) /\ ~CasaCNPJ(identificador)
        THEN [erro |-> "ValueError", registro |-> SemRegistro, chamadas_dv |-> 0]
        ELSE IF dv.erro # "none"
        THEN [erro |-> dv.erro, registro |-> SemRegistro, chamadas_dv |-> 1]
        ELSE [erro |-> "none",
              registro |->
                  [cadastro_pessoas |-> cadastro_pessoas,
                   digitos_identificador |-> digitos_identificador,
                   identificador_formatado |-> identificador_formatado,
                   identificador_valido |->
                       DigitosConferem(dv.valor, digitos_identificador)],
              chamadas_dv |-> 1]

\* Registro.de_estabelecimento_com_raiz_cnpj for a str raiz and an int
\* estabelecimento: [erro, registro, chamadas_dv]
DeEstabelecimentoComRaizCnpj(raiz, estabelecimento) ==
    IF estabelecimento < 1
    THEN [erro |-> "ValueError", registro |-> SemRegistro, chamadas_dv |-> 0]
    ELSE LET texto_gerar_digitos == raiz \o ZFill(StrNat(estabelecimento), 4)
             dv == gerar_digitos_verificadores(texto_gerar_digitos, CNPJ)
             r == RegistroInit(texto_gerar_digitos \o dv.valor)
         IN  IF dv.erro # "none"
             THEN [erro |-> dv.erro, registro |-> SemRegistro, chamadas_dv |-> 1]
             ELSE [r EXCEPT !.chamadas_dv = r.chamadas_dv + 1]

\* ExtrairRaizCnpj without the check of the kind
ExtrairRaizCnpj_SemVerificar(self) ==
    [erro |-> "none", valor |-> Slice(self.digitos_identificador, 0, 8)]

\* Registro.extrair_raiz_cnpj: [erro, valor]
ExtrairRaizCnpj(self) ==
    IF self.cadastro_pessoas # CNPJ
    THEN [erro |-> "ValueError", valor |-> <<>>]
    ELSE [erro |-> "none", valor |-> Slice(self.digitos_identificador, 0, 8)]

(***************************************************************************)
(* Inputs.  The identifiers of the tests are the seeds; the last VarLen    *)
(* digits of each range over all digit values.                             *)
(***************************************************************************)
\* number of trailing digits of a seed that range over 0..9
VarLen == 2

\* largest small establishment number tried (besides the boundary values)
MaxEstabelecimento == 3

\* a text from a tuple of digit values
Txt(ds) == [i \in 1..Len(ds) |-> StrOfDigit(ds[i])]

\* "070.680.938-68", "453.178.287-91" of the tests, and "111.444.777-35"
SementesCPF ==
    {Txt(<<0, 7, 0, 6, 8, 0, 9, 3, 8, 6, 8>>),
     Txt(<<4, 5, 3, 1, 7, 8, 2, 8, 7, 9, 1>>),
     Txt(<<1, 1, 1, 4, 4, 4, 7, 7, 7, 3, 5>>)}

\* "00.000.000/0001-91" of the tests, "11.222.333/0001-81" and
\* "60.746.948/0325-12"
SementesCNPJ ==
    {Txt(<<0, 0, 0, 0, 0, 0, 0, 0, 0, 0, 0, 1, 9, 1>>),
     Txt(<<1, 1, 2, 2, 2, 3, 3, 3, 0, 0, 0, 1, 8, 1>>),
     Txt(<<6, 0, 7, 4, 6, 9, 4, 8, 0, 3, 2, 5, 1, 2>>)}

Sementes == SementesCPF \cup SementesCNPJ

\* the texts that share all but the last n characters with s
Variar(s, n) ==
    {Slice(s, 0, Len(s) - n) \o v : v \in [1..n -> DigitSet]}

RECURSIVE Preencher(_, _)
\* the text of the shape `molde` whose digits are those of d, in order: each
\* "d" of the shape takes the next digit, any other token stands for itself
Preencher(molde, d) ==
    IF molde = <<>> THEN <<>>
    ELSE IF Head(molde) = "d"
    THEN (IF d = <<>> THEN <<>> ELSE <<Head(d)>> \o Preencher(Tail(molde), Tail(d)))
    ELSE <<Head(molde)>> \o Preencher(Tail(molde), d)

\* the canonical shape of each kind
Molde(cadastro_pessoas) ==
    IF cadastro_pessoas = CPF THEN REGEX_CPF_COM_SEPARADORES
    ELSE REGEX_CNPJ_COM_SEPARADORES

\* 11- and 14-digit texts, without separators
IdentificadoresSoDigitos == UNION {Variar(s, VarLen) : s \in Sementes}

\* the same identifiers written with the canonical separators
IdentificadoresComSeparadores ==
    {Preencher(Molde(CPF), d) : d \in UNION {Variar(s, VarLen) : s \in SementesCPF}}
    \cup
    {Preencher(Molde(CNPJ), d) : d \in UNION {Variar(s, VarLen) : s \in SementesCNPJ}}

\* shapes no pattern of the module accepts: spaces, some separators only,
\* separators swapped, a letter
MoldesMalformados ==
    {<<"d", "d", "d", " ", "d", "d", "d", " ", "d", "d", "d", " ", "d", "d">>,
     <<"d", "d", "d", ".", "d", "d", "d", ".", "d", "d", "d", "d", "d">>,
     <<"d", "d", "d", "d", "d", "d", "d", "d", "d", "-", "d", "d">>,
     <<"d", "d", "d", "-", "d", "d", "d", "-", "d", "d", "d", ".", "d", "d">>,
     <<" ", "d", "d", "d", "d", "d", "d", "d", "d", "d", "d", "d">>,
     <<"d", "d", "d", "d", "d", "d", "d", "d", "d", "d", "d", "a">>,
     <<"d", "d", "d", ".", "d", "d", "d", ".", "d", "d", "d", "-", "d", "a">>,
     <<"d", "d", " ", "d", "d", "d", " ", "d", "d", "d", " ",
       "d", "d", "d", "d", " ", "d", "d">>,
     <<"d", "d", ".", "d", "d", "d", ".", "d", "d", "d", "/",
       "d", "d", "d", "d", "d", "d">>,
     <<"d", "d", "d", "d", "d", "d", "d", "d", "/",
       "d", "d", "d", "d", "-", "d", "d">>,
     <<"d", "d", "d", "d", "d", "d", "d", "d", "d", "d", "d", "d", "d", "d", "a">>,
     <<"d", "d", ".", "d", "d", "d", ".", "d", "d", "d", "/",
       "d", "d", "d", "d", "-", "d", "a">>}

\* texts of a wrong length: the 8-digit root, one digit short, one digit long
ComprimentosErrados ==
    {<<>>}
    \cup {Slice(s, 0, 8) : s \in Sementes}
    \cup {Slice(s, 0, Len(s) - 1) : s \in Sementes}
    \cup {s \o <<"0">> : s \in Sementes}
    \cup {s \o <<"0", "0">> : s \in Sementes}

TextosMalformados ==
    {Preencher(m, s) : m \in MoldesMalformados, s \in Sementes}
    \cup ComprimentosErrados

\* the arguments tried for Registro(...)
Textos ==
    IdentificadoresSoDigitos \cup IdentificadoresComSeparadores
    \cup TextosMalformados

\* the digits before the check digits, their last VarLen digits ranging
Prefixos ==
    UNION {Variar(Slice(s, 0, Len(s) - 2), VarLen) : s \in Sementes}

\* the texts that share all but the first n characters with s
VariarInicio(s, n) ==
    {v \o Slice(s, n, Len(s)) : v \in [1..n -> DigitSet]}

\* the same, their first VarLen digits ranging
PrefixosInicio ==
    UNION {VariarInicio(Slice(s, 0, Len(s) - 2), VarLen) : s \in Sementes}

\* the arguments tried for gerar_digitos_verificadores
TextosGerar ==
    Prefixos \cup PrefixosInicio \cup IdentificadoresSoDigitos
    \cup {Preencher(Molde(CPF), s) : s \in SementesCPF}
    \cup {Preencher(Molde(CNPJ), s) : s \in SementesCNPJ}
    \cup TextosMalformados

EspeciesGerar == EspeciesCadastroPessoas \cup {"OUTRO"}

\* the roots tried for the factory: 8 digits, and not
Raizes ==
    {Slice(s, 0, 8) : s \in Sementes}
    \cup {Slice(s, 0, 7) : s \in SementesCNPJ}
    \cup {Slice(s, 0, 9) : s \in SementesCNPJ}
    \cup {Preencher(<<"d", "d", ".", "d", "d", "d", ".", "d", "d", "d">>, s) :
            s \in SementesCNPJ}
    \cup {Preencher(<<"d", "d", "d", "d", "d", "d", "d", "a">>, s) :
            s \in SementesCNPJ}

\* the establishment numbers tried for the factory
Estabelecimentos ==
    (-1..MaxEstabelecimento)
    \cup {9, 10, 99, 100, 999, 1000, 9998, 9999, 10000, 10001, 99999, 100000}

(***************************************************************************)
(* The program: a first call (the constructor, the factory or the          *)
(* generator) with arguments drawn from the input sets, then calls on the  *)
(* Registro it built.                                                      *)
(***************************************************************************)
VARIABLES
    op,           \* the last operation called
    entrada,      \* the arguments of the call that built `registro`, or of gerar
    registro,     \* the Registro at hand, SemRegistro when there is none
    anterior,     \* the Registro as it was when the last call on it began
    retorno,      \* what the last call of a function returned
    erro,         \* the exception the last operation raised, "none" if none
    chamadas_dv   \* calls of gerar_digitos_verificadores the last operation made

vars == <<op, entrada, registro, anterior, retorno, erro, chamadas_dv>>

SemEntrada ==
    [origem |-> "none", texto |-> <<>>, especie |-> "none", estabelecimento |-> 0]

Init ==
    /\ op = "none"
    /\ entrada = SemEntrada
    /\ registro = SemRegistro
    /\ anterior = SemRegistro
    /\ retorno = <<>>
    /\ erro = "none"
    /\ chamadas_dv = 0

\* Registro(identificador)
Construir ==
    /\ op = "none"
    /\ \E identificador \in Textos :
         LET r == RegistroInit(identificador)
         IN  /\ registro' = r.registro
             /\ erro' = r.erro
             /\ chamadas_dv' = r.chamadas_dv
             /\ entrada' = [SemEntrada EXCEPT !.origem = "init",
                                              !.texto = identificador]
    /\ op' = "init"
    /\ anterior' = SemRegistro
    /\ retorno' = <<>>

\* Registro.de_estabelecimento_com_raiz_cnpj(raiz, estabelecimento)
Fabricar ==
    /\ op = "none"
    /\ \E raiz \in Raizes, estabelecimento \in Estabelecimentos :
         LET r == DeEstabelecimentoComRaizCnpj(raiz, estabelecimento)
         IN  /\ registro' = r.registro
             /\ erro' = r.erro
             /\ chamadas_dv' = r.chamadas_dv
             /\ entrada' = [SemEntrada EXCEPT !.origem = "fabrica",
                                              !.texto = raiz,
                                              !.estabelecimento = estabelecimento]
    /\ op' = "fabrica"
    /\ anterior' = SemRegistro
    /\ retorno' = <<>>

\* Registro.gerar_digitos_verificadores(texto, cadastro_pessoas)
Gerar ==
    /\ op = "none"
    /\ \E texto \in TextosGerar, cadastro_pessoas \in EspeciesGerar :
         LET r == gerar_digitos_verificadores(texto, cadastro_pessoas)
         IN  /\ retorno' = r.valor
             /\ erro' = r.erro
             /\ entrada' = [SemEntrada EXCEPT !.origem = "gerar",
                                              !.texto = texto,
                                              !.especie = cadastro_pessoas]
    /\ op' = "gerar"
    /\ chamadas_dv' = 1
    /\ UNCHANGED <<registro, anterior>>

\* registro.extrair_raiz_cnpj()
ExtrairRaiz ==
    /\ registro # SemRegistro
    /\ LET r == ExtrairRaizCnpj(registro)
       IN  /\ retorno' = r.valor
           /\ erro' = r.erro
    /\ op' = "extrair"
    /\ anterior' = registro
    /\ chamadas_dv' = 0
    /\ UNCHANGED <<registro, entrada>>

\* Registro(registro.identificador_formatado)
Reconstruir ==
    /\ registro # SemRegistro
    /\ LET r == RegistroInit(registro.identificador_formatado)
       IN  /\ registro' = r.registro
           /\ erro' = r.erro
           /\ chamadas_dv' = r.chamadas_dv
    /\ op' = "reconstruir"
    /\ entrada' = [SemEntrada EXCEPT !.origem = "reconstruir",
                                     !.texto = registro.identificador_formatado]
    /\ anterior' = registro
    /\ retorno' = <<>>

Next ==
    \/ Construir
    \/ Fabricar
    \/ Gerar
    \/ ExtrairRaiz
    \/ Reconstruir

Spec == Init /\ [][Next]_vars

(***************************************************************************)
(* Vocabulary of the properties.                                           *)
(***************************************************************************)
\* the number of decimal-digit characters of a text
ContagemDigitos(t) == Cardinality({i \in 1..Len(t) : t[i] \in DigitSet})

ContemLetra(t) == \E i \in 1..Len(t) : t[i] = "a"

\* malformed identifier text: a letter, or a digit count that is neither 11 nor 14
Malformado(t) == ContemLetra(t) \/ ContagemDigitos(t) \notin {11, 14}

\* the digit characters of a text, in order
RECURSIVE Digitos(_)
Digitos(t) ==
    IF t = <<>> THEN <<>>
    ELSE (IF Head(t) \in DigitSet THEN <<Head(t)>> ELSE <<>>) \o Digitos(Tail(t))

SoDigitos(t) == \A i \in 1..Len(t) : t[i] \in DigitSet

Val(c) == CHOOSE n \in 0..9 : StrOfDigit(n) = c

RECURSIVE SomaSeq(_)
SomaSeq(q) == IF q = <<>> THEN 0 ELSE Head(q) + SomaSeq(Tail(q))

\* a Registro exists and the last call raised nothing
Construido == erro = "none" /\ registro # SemRegistro

\* the last call was a construction from a text
DeTexto == op \in {"init", "reconstruir"}

(***************************************************************************)
(* C1, as stated: constructing a Registro from malformed text does not     *)
(* raise; it gives a record that is not valid, and no check digits are     *)
(* computed.                                                               *)
(***************************************************************************)
C1_MalformadoNaoLevanta ==
    (op = "init" /\ Malformado(entrada.texto)) =>
        /\ erro = "none"
        /\ registro # SemRegistro
        /\ ~registro.identificador_valido
        /\ chamadas_dv = 0

(***************************************************************************)
(* C1, amended: constructing a Registro from malformed text (a letter, or  *)
(* a digit count that is neither 11 nor 14) raises ValueError: no Registro *)
(* results, and the check-digit generator is not called.                   *)
(***************************************************************************)
C1_MalformadoLevantaValueError ==
    (DeTexto /\ Malformado(entrada.texto)) =>
        /\ erro = "ValueError"
        /\ registro = SemRegistro
        /\ chamadas_dv = 0

\* the 8-digit root of the tests was passed to the constructor, which raised
C1_Witness ==
    /\ op = "init"
    /\ entrada.texto = Txt(<<0, 0, 0, 0, 0, 0, 0, 0>>)
    /\ erro = "ValueError"
    /\ registro = SemRegistro

(***************************************************************************)
(* C2, as stated: a text without letters is classified by its digit count  *)
(* alone (11: CPF, 14: CNPJ), whatever separators it holds and wherever;   *)
(* it is rejected only for a letter or another digit count.                *)
(***************************************************************************)
C2_ClassificaPorContagem ==
    (op = "init" /\ ~ContemLetra(entrada.texto)) =>
        /\ ContagemDigitos(entrada.texto) = 11 =>
               (Construido /\ registro.cadastro_pessoas = CPF)
        /\ ContagemDigitos(entrada.texto) = 14 =>
               (Construido /\ registro.cadastro_pessoas = CNPJ)
        /\ erro # "none" => ContagemDigitos(entrada.texto) \notin {11, 14}

\* the text is written exactly in one of the two shapes of its kind: digits
\* only, or the canonical separators at the canonical places
FormaExata(t, cadastro_pessoas) ==
    /\ Len(Digitos(t)) = QuantidadeMaximaDigitos(cadastro_pessoas)
    /\ t \in {Digitos(t), Preencher(Molde(cadastro_pessoas), Digitos(t))}

(***************************************************************************)
(* C2, amended: the constructor classifies a text by its exact shape: CPF  *)
(* iff it is exactly 11 digits or exactly DDD.DDD.DDD-DD, CNPJ iff it is   *)
(* exactly 14 digits or exactly DD.DDD.DDD/DDDD-DD.  Every other text,     *)
(* also one with 11 or 14 digits and no letter whose separators are        *)
(* spaces, missing in part or misplaced, is rejected with ValueError.      *)
(***************************************************************************)
C2_ClassificaPorForma ==
    DeTexto =>
        /\ (Construido /\ registro.cadastro_pessoas = CPF)
               <=> FormaExata(entrada.texto, CPF)
        /\ (Construido /\ registro.cadastro_pessoas = CNPJ)
               <=> FormaExata(entrada.texto, CNPJ)
        /\ (erro = "ValueError" /\ registro = SemRegistro)
               <=> (~FormaExata(entrada.texto, CPF)
                    /\ ~FormaExata(entrada.texto, CNPJ))

\* 11 digits separated by spaces, no letter: rejected
C2_Witness ==
    /\ op = "init"
    /\ entrada.texto = Preencher(<<"d", "d", "d", " ", "d", "d", "d", " ",
                                   "d", "d", "d", " ", "d", "d">>,
                                 Txt(<<0, 7, 0, 6, 8, 0, 9, 3, 8, 6, 8>>))
    /\ erro = "ValueError"

(***************************************************************************)
(* C3: for an 11-digit (14-digit) text D, with or without the canonical    *)
(* separators, the Registro is constructed and classified whatever its     *)
(* check digits, and it is valid iff the check digits generated for        *)
(* D[:9] as CPF (D[:12] as CNPJ) equal D[9:11] (D[12:14]).                 *)
(***************************************************************************)
C3_ValidoSseDigitosConferem ==
    \A k \in EspeciesCadastroPessoas :
        (DeTexto /\ FormaExata(entrada.texto, k)) =>
            LET D == Digitos(entrada.texto)
                n == Len(D)
                g == gerar_digitos_verificadores(SubSeq(D, 1, n - 2), k)
            IN  /\ Construido
                /\ registro.cadastro_pessoas = k
                /\ registro.digitos_identificador = D
                /\ g.erro = "none"
                /\ registro.identificador_valido
                       <=> (g.valor = <<D[n - 1], D[n]>>)

\* "070.680.938-61" of the tests: classified, and not valid
C3_Witness ==
    /\ op = "init"
    /\ entrada.texto = Preencher(Molde(CPF),
                                 Txt(<<0, 7, 0, 6, 8, 0, 9, 3, 8, 6, 1>>))
    /\ Construido
    /\ registro.cadastro_pessoas = CPF
    /\ ~registro.identificador_valido

\* the factory was called with an 8-digit root
FabricaComRaizDeOito ==
    /\ entrada.origem = "fabrica"
    /\ Len(entrada.texto) = 8
    /\ SoDigitos(entrada.texto)

\* the establishment number written with four digits
QuatroDigitos(e) ==
    <<StrOfDigit(e \div 1000), StrOfDigit((e \div 100) % 10),
      StrOfDigit((e \div 10) % 10), StrOfDigit(e % 10)>>

\* what C4 promises of the factory's Registro and of extrair_raiz_cnpj on it
ResultadoDaFabrica ==
    LET doze == entrada.texto \o QuatroDigitos(entrada.estabelecimento)
    IN  /\ op = "fabrica" =>
            /\ Construido
            /\ registro.cadastro_pessoas = CNPJ
            /\ registro.digitos_identificador
                   = doze \o gerar_digitos_verificadores(doze, CNPJ).valor
            /\ Len(registro.digitos_identificador) = 14
            /\ registro.identificador_valido
        /\ op = "extrair" => (erro = "none" /\ retorno = entrada.texto)

(***************************************************************************)
(* C4, as stated: for every 8-digit root and every establishment number    *)
(* >= 1 the factory returns a valid CNPJ Registro whose digits are the     *)
(* root, the establishment padded to 4 digits and the check digits of      *)
(* those 12, and extrair_raiz_cnpj on it returns the root.                 *)
(***************************************************************************)
C4_FabricaTodoEstabelecimento ==
    (FabricaComRaizDeOito /\ entrada.estabelecimento >= 1
       /\ op \in {"fabrica", "extrair"})
        => ResultadoDaFabrica

(***************************************************************************)
(* C4, amended: for every 8-digit root and every establishment number      *)
(* from 1 to 9999 the factory returns a valid CNPJ Registro whose digits   *)
(* are the root, the establishment padded to 4 digits and the check        *)
(* digits of those 12, and extrair_raiz_cnpj on it returns the root; for   *)
(* an establishment number of more than four digits (>= 10000) or below 1  *)
(* the factory raises ValueError and returns no Registro.                  *)
(***************************************************************************)
C4_FabricaAteQuatroDigitos ==
    /\ (FabricaComRaizDeOito /\ entrada.estabelecimento \in 1..9999
          /\ op \in {"fabrica", "extrair"})
           => ResultadoDaFabrica
    /\ (FabricaComRaizDeOito /\ entrada.estabelecimento > 9999
          /\ op = "fabrica")
           => (erro = "ValueError" /\ registro = SemRegistro)

\* ('00000000', 2) of the tests: "00.000.000/0002-72", then its root extracted
C4_Witness ==
    /\ op = "extrair"
    /\ entrada.origem = "fabrica"
    /\ entrada.estabelecimento = 2
    /\ registro.identificador_formatado
           = Preencher(Molde(CNPJ),
                       Txt(<<0, 0, 0, 0, 0, 0, 0, 0, 0, 0, 0, 2, 7, 2>>))
    /\ retorno = Txt(<<0, 0, 0, 0, 0, 0, 0, 0>>)

\* DDD.DDD.DDD-DD and DD.DDD.DDD/EEEE-DD, position by position
Canonico(d, cadastro_pessoas) ==
    IF cadastro_pessoas = CPF
    THEN <<d[1], d[2], d[3], ".", d[4], d[5], d[6], ".", d[7], d[8], d[9],
           "-", d[10], d[11]>>
    ELSE <<d[1], d[2], ".", d[3], d[4], d[5], ".", d[6], d[7], d[8], "/",
           d[9], d[10], d[11], d[12], "-", d[13], d[14]>>

(***************************************************************************)
(* C5: the formatted identifier of every Registro is its digits, in their  *)
(* order, with the canonical separators at the fixed places                *)
(* (DDD.DDD.DDD-DD for CPF, DD.DDD.DDD/EEEE-DD for CNPJ); the digits are   *)
(* those of the text it was constructed from, so the formatted value is    *)
(* the same for a text with the separators and for its digits alone.       *)
(***************************************************************************)
C5_FormatoCanonico ==
    registro # SemRegistro =>
        /\ Len(registro.digitos_identificador)
               = QuantidadeMaximaDigitos(registro.cadastro_pessoas)
        /\ registro.identificador_formatado
               = Canonico(registro.digitos_identificador,
                          registro.cadastro_pessoas)
        /\ DeTexto =>
               registro.identificador_formatado
                   = Canonico(Digitos(entrada.texto), registro.cadastro_pessoas)

\* "00000000000191" of the tests, digits only, formatted "00.000.000/0001-91"
C5_Witness ==
    /\ op = "init"
    /\ entrada.texto = Txt(<<0, 0, 0, 0, 0, 0, 0, 0, 0, 0, 0, 1, 9, 1>>)
    /\ registro.identificador_formatado
           = <<"0", "0", ".", "0", "0", "0", ".", "0", "0", "0", "/",
               "0", "0", "0", "1", "-", "9", "1">>

(***************************************************************************)
(* C6: for every Registro r, the digit characters of r's formatted         *)
(* identifier are r's digits, and constructing a Registro from r's         *)
(* formatted identifier succeeds and gives the same digits, kind, validity *)
(* and formatted identifier.                                               *)
(***************************************************************************)
C6_IdaEVolta ==
    /\ registro # SemRegistro =>
           Digitos(registro.identificador_formatado)
               = registro.digitos_identificador
    /\ op = "reconstruir" =>
           /\ erro = "none"
           /\ anterior # SemRegistro
           /\ registro = anterior

\* a Registro that is not valid, built from digits only, was constructed again
\* from its formatted identifier
C6_Witness ==
    /\ op = "reconstruir"
    /\ registro # SemRegistro
    /\ ~anterior.identificador_valido
    /\ anterior.cadastro_pessoas = CNPJ
    /\ entrada.texto = anterior.identificador_formatado

\* the text without the characters '.', '/' and '-'
RECURSIVE SemPontuacao(_)
SemPontuacao(t) ==
    IF t = <<>> THEN <<>>
    ELSE (IF Head(t) \in {".", "/", "-"} THEN <<>> ELSE <<Head(t)>>)
         \o SemPontuacao(Tail(t))

\* the number of digits the generator expects before the check digits
ComprimentoPrefixo(cadastro_pessoas) ==
    IF cadastro_pessoas = CPF THEN 9 ELSE 12

(***************************************************************************)
(* C7, as stated: the generator fails whenever the digits passed to it are *)
(* not exactly 9 (CPF) or 12 (CNPJ); it fails on a full 11- or 14-digit    *)
(* identifier, and returns a result only for an all-digit text of 9 or 12  *)
(* digits.                                                                 *)
(***************************************************************************)
C7_SoAceitaPrefixo ==
    (op = "gerar" /\ SoDigitos(entrada.texto)) =>
        (erro = "none"
            <=> Len(entrada.texto) = ComprimentoPrefixo(entrada.especie))

(***************************************************************************)
(* C7, amended: the generator raises ValueError exactly when the kind is   *)
(* not CPF or CNPJ, or the text, with every '.', '/' and '-' removed, is   *)
(* not all digits or has a length that is neither the kind's full length   *)
(* (11, 14) nor that length minus 2 (9, 12).  Given a full-length          *)
(* identifier it does not fail: it returns the check digits of the         *)
(* identifier without its last two digits.                                 *)
(***************************************************************************)
C7_AceitaPrefixoOuCompleto ==
    op = "gerar" =>
        LET t == SemPontuacao(entrada.texto)
            k == entrada.especie
            aceito == /\ k \in {CPF, CNPJ}
                      /\ t # <<>>
                      /\ SoDigitos(t)
                      /\ Len(t) \in {ComprimentoPrefixo(k),
                                     ComprimentoPrefixo(k) + 2}
        IN  /\ erro = (IF aceito THEN "none" ELSE "ValueError")
            /\ ~aceito => retorno = <<>>
            /\ aceito => Len(retorno) = 2
            /\ (aceito /\ Len(t) = ComprimentoPrefixo(k) + 2) =>
                   retorno = gerar_digitos_verificadores(
                                 SubSeq(t, 1, ComprimentoPrefixo(k)), k).valor

\* the generator was given the full 11 digits "07068093861" as CPF and
\* returned "68", the check digits of "070680938"
C7_Witness ==
    /\ op = "gerar"
    /\ entrada.especie = CPF
    /\ entrada.texto = Txt(<<0, 7, 0, 6, 8, 0, 9, 3, 8, 6, 1>>)
    /\ erro = "none"
    /\ retorno = <<"6", "8">>

(***************************************************************************)
(* C8: extrair_raiz_cnpj returns the first 8 digits of the Registro for    *)
(* every CNPJ Registro, valid or not, and raises ValueError, returning     *)
(* nothing, for every CPF Registro; the Registro is unchanged by the call. *)
(***************************************************************************)
C8_ExtrairRaiz ==
    op = "extrair" =>
        /\ registro = anterior
        /\ anterior.cadastro_pessoas = CNPJ =>
               /\ erro = "none"
               /\ retorno = [i \in 1..8 |-> anterior.digitos_identificador[i]]
        /\ anterior.cadastro_pessoas = CPF =>
               /\ erro = "ValueError"
               /\ retorno = <<>>

\* the root was extracted from a CNPJ Registro that is not valid, of an
\* establishment other than 0001
C8_Witness ==
    /\ op = "extrair"
    /\ registro.cadastro_pessoas = CNPJ
    /\ ~registro.identificador_valido
    /\ SubSeq(registro.digitos_identificador, 9, 12) # <<"0", "0", "0", "1">>
    /\ Len(retorno) = 8
    /\ erro = "none"

\* C8 again, for a CPF Registro: the call raised
C8_WitnessCPF ==
    /\ op = "extrair"
    /\ registro.cadastro_pessoas = CPF
    /\ erro = "ValueError"

\* the CPF digit of pass k over the working sequence q: weights 10 down to 2
\* on the nine digits from offset k
PassoCPF(q, k) ==
    LET r == SomaSeq([i \in 1..9 |-> Val(q[k + i]) * (11 - i)]) % 11
    IN  IF r > 1 THEN 11 - r ELSE 0

\* the weight of the j-th digit from the end: 9, 8, ..., 2, 9, 8, ...
PesoCNPJ(j) == 9 - ((j - 1) % 8)

\* the CNPJ digit of one pass over the whole working sequence q
PassoCNPJ(q) ==
    LET n == Len(q)
        r == SomaSeq([j \in 1..n |-> Val(q[n + 1 - j]) * PesoCNPJ(j)]) % 11
    IN  IF r = 10 THEN 0 ELSE r

(***************************************************************************)
(* C9: for a 9-digit CPF prefix or a 12-digit CNPJ prefix the generator    *)
(* returns exactly two decimal digits, computed in two passes, the second  *)
(* over the working sequence that holds the first digit.  CPF: pass k      *)
(* (0, 1) weighs the nine digits from offset k with 10 down to 2, takes    *)
(* r = sum mod 11 and appends 11 - r if r > 1, else 0.  CNPJ: each pass    *)
(* weighs the whole working sequence from its last digit to its first      *)
(* with 9, 8, ..., 2, 9, 8, ..., takes r = sum mod 11 and appends 0 if     *)
(* r = 10, else r.                                                         *)
(***************************************************************************)
C9_DoisPassos ==
    (op = "gerar" /\ entrada.especie \in {CPF, CNPJ}
       /\ SoDigitos(entrada.texto)
       /\ Len(entrada.texto) = ComprimentoPrefixo(entrada.especie)) =>
        LET p == entrada.texto
            d1 == IF entrada.especie = CPF THEN PassoCPF(p, 0) ELSE PassoCNPJ(p)
            q == p \o <<StrOfDigit(d1)>>
            d2 == IF entrada.especie = CPF THEN PassoCPF(q, 1) ELSE PassoCNPJ(q)
        IN  /\ erro = "none"
            /\ d1 \in 0..9 /\ d2 \in 0..9
            /\ retorno = <<StrOfDigit(d1), StrOfDigit(d2)>>

\* the generator returned "91" for the CPF prefix "453178287" of the tests
C9_Witness ==
    /\ op = "gerar"
    /\ entrada.especie = CPF
    /\ entrada.texto = Txt(<<4, 5, 3, 1, 7, 8, 2, 8, 7>>)
    /\ retorno = <<"9", "1">>

\* the weight of the j-th digit from the end under the official rule:
\* 2, 3, ..., 9, 2, 3, ...
PesoOficial(j) == 2 + ((j - 1) % 8)

\* the digit of one pass of the official CNPJ rule over q
PassoOficial(q) ==
    LET n == Len(q)
        r == SomaSeq([j \in 1..n |-> Val(q[n + 1 - j]) * PesoOficial(j)]) % 11
    IN  IF r < 2 THEN 0 ELSE 11 - r

(***************************************************************************)
(* C10: for every 12-digit prefix the CNPJ check digits the generator      *)
(* returns are those of the official rule: each pass weighs the working    *)
(* sequence from its last digit to its first with 2, 3, ..., 9, 2, 3, ..., *)
(* takes r = sum mod 11 and appends 0 if r < 2, else 11 - r.               *)
(***************************************************************************)
C10_RegraOficial ==
    (op = "gerar" /\ entrada.especie = CNPJ /\ SoDigitos(entrada.texto)
       /\ Len(entrada.texto) = 12) =>
        LET p == entrada.texto
            d1 == PassoOficial(p)
            q == p \o <<StrOfDigit(d1)>>
            d2 == PassoOficial(q)
        IN  /\ erro = "none"
            /\ retorno = <<StrOfDigit(d1), StrOfDigit(d2)>>

\* the generator returned "81" for the CNPJ prefix "112223330001"
C10_Witness ==
    /\ op = "gerar"
    /\ entrada.especie = CNPJ
    /\ entrada.texto = Txt(<<1, 1, 2, 2, 2, 3, 3, 3, 0, 0, 0, 1>>)
    /\ retorno = <<"8", "1">>

=============================================================================
